---- MODULE Spec2Model ----
(***************************************************************************)
(* A model of num-radix (src/radix.py): the Radix alphabet object, its     *)
(* presets, encode, decode, _fill_template and the RadixFormatWrapper.     *)
(*                                                                         *)
(* Representation.                                                         *)
(*  - A Python str is a sequence of one-character strings.                 *)
(*  - A Python number is a record [isfloat, v]: the int v, or the float    *)
(*    v / FracDen.  With FracDen a power of two and the small bases and    *)
(*    magnitudes drawn here, every product fraction*base and every divmod  *)
(*    by 1 of encode is exact in IEEE doubles, so the rational arithmetic  *)
(*    below is what the code computes.                                     *)
(*  - A decoded value is a record [status, num, den] meaning num / den;    *)
(*    den is the power of the base that decode's negative exponents reach, *)
(*    and den = 1 is a Python int.                                         *)
(*  - A call that raises is a result whose status is the exception's name. *)
(***************************************************************************)
EXTENDS Integers, Sequences, FiniteSets, TLC

VARIABLES
    radix,      \* the Radix object: [digits, base, sep, neg, tsep, pos, exp], or NoObject
    wrapper,    \* the RadixFormatWrapper(s) made by wrap, or NoObject
    last,       \* the last call on the object: [op, arg, result]
    call_number, \* the argument `number` of the encode call under way
    call_fmt,   \* the argument `fmt` of the encode call under way
    enc,        \* what encode returned (or raised), with its locals at that point
    dec,        \* what decode returned (or raised)
    pc,         \* position of the caller / of encode's body
    integer,    \* encode's local `integer` (radix.py:215, 223)
    indexes     \* encode's local `indexes` (radix.py:219-226)

vars == <<radix, wrapper, last, call_number, call_fmt, enc, dec, pc, integer, indexes>>

NoObject == [none |-> TRUE]

(***************************************************************************)
(* Bounds of the model.                                                    *)
(***************************************************************************)
MaxN == 70          \* ints drawn are -MaxN..MaxN (two digits in base 57 and 62)
FracDen == 32       \* floats drawn are k / FracDen
MaxK == 40          \* ... for k in -MaxK..MaxK, and the scenario floats below
MaxScale == 2       \* fixed scales drawn are 0..MaxScale
MaxByBase == 64     \* by_base is called with bases up to MaxByBase (the pool holds 62)
MaxDigits == 8      \* encode's division loop is followed for this many digits

(***************************************************************************)
(* Python helpers.                                                         *)
(***************************************************************************)
Abs(x) == IF x < 0 THEN -x ELSE x

Min(a, b) == IF a < b THEN a ELSE b

RECURSIVE Pow(_, _)
Pow(b, e) == IF e <= 0 THEN 1 ELSE b * Pow(b, e - 1)

\* s * n for a one-character str s
Repeat(c, n) == [i \in 1..(IF n < 0 THEN 0 ELSE n) |-> c]

\* str.index / `in`: the first position (1-based) of c in s, 0 when absent
RECURSIVE IndexFrom(_, _, _)
IndexFrom(s, c, i) ==
    IF i > Len(s) THEN 0
    ELSE IF s[i] = c THEN i
    ELSE IndexFrom(s, c, i + 1)

Index(s, c) == IndexFrom(s, c, 1)

Contains(s, c) == \E i \in 1..Len(s) : s[i] = c

string_digits == <<"0", "1", "2", "3", "4", "5", "6", "7", "8", "9">>

ascii_uppercase ==
    <<"A", "B", "C", "D", "E", "F", "G", "H", "I", "J", "K", "L", "M",
      "N", "O", "P", "Q", "R", "S", "T", "U", "V", "W", "X", "Y", "Z">>

ascii_lowercase ==
    <<"a", "b", "c", "d", "e", "f", "g", "h", "i", "j", "k", "l", "m",
      "n", "o", "p", "q", "r", "s", "t", "u", "v", "w", "x", "y", "z">>

\* str.replace(c, "") for a one-character c
Remove(s, c) == SelectSeq(s, LAMBDA x : x # c)

(***************************************************************************)
(* **kwargs: a set of <<key, value>> pairs.                                *)
(***************************************************************************)
HasKey(kwargs, key) == \E p \in kwargs : p[1] = key

Kw(kwargs, key, default) ==
    IF HasKey(kwargs, key) THEN (CHOOSE p \in kwargs : p[1] = key)[2] ELSE default

setdefault(kwargs, key, value) ==
    IF HasKey(kwargs, key) THEN kwargs ELSE kwargs \cup {<<key, value>>}

(***************************************************************************)
(* The Radix object.  Fields digits and base are the attributes _digits    *)
(* and _base behind the two properties.                                    *)
(***************************************************************************)
digits_setter_keeps_base(self, digits) == [self EXCEPT !.digits = digits]

digits_setter(self, digits) ==
    [self EXCEPT !.digits = digits, !.base = Len(digits)]

\* Radix.__init__: no argument is validated; nothing is raised.
Radix_init(digits, kwargs) ==
    digits_setter(
        [digits |-> <<>>, base |-> 0,
         sep  |-> Kw(kwargs, "sep", "."),
         neg  |-> Kw(kwargs, "neg", "-"),
         tsep |-> Kw(kwargs, "tsep", ","),
         pos  |-> Kw(kwargs, "pos", "+"),
         exp  |-> Kw(kwargs, "exp", "e")],
        digits)

symbol_pool == string_digits \o ascii_uppercase \o ascii_lowercase

\* pool[:abs(base)]: a slice never raises, and stops at the pool's end
by_base(base, kwargs) ==
    Radix_init(SubSeq(symbol_pool, 1, Min(Abs(base), Len(symbol_pool))), kwargs)

bin(kwargs) == Radix_init(<<"0", "1">>, kwargs)

oct(kwargs) == Radix_init(SubSeq(string_digits, 1, 8), kwargs)

hex(kwargs) == Radix_init(string_digits \o <<"A", "B", "C", "D", "E", "F">>, kwargs)

hex_lc(kwargs) == Radix_init(string_digits \o <<"a", "b", "c", "d", "e", "f">>, kwargs)

dozenal(kwargs) ==
    Radix_init(string_digits \o <<"X", "E">>, setdefault(kwargs, "sep", ";"))

\* the digits U+218A and U+218B, named by their code points
dozenal_pitman(kwargs) ==
    Radix_init(string_digits \o <<"U+218A", "U+218B">>, setdefault(kwargs, "sep", ";"))

dozenal_pitman_ascii(kwargs) ==
    Radix_init(string_digits \o <<"T", "E">>, setdefault(kwargs, "sep", ";"))

\* the digits U+1D4B3 and U+2130, named by their code points
dozenal_dwiggins(kwargs) ==
    Radix_init(string_digits \o <<"U+1D4B3", "U+2130">>, setdefault(kwargs, "sep", ";"))

dozenal_kramer(kwargs) ==
    Radix_init(string_digits \o <<"*", "#">>, setdefault(kwargs, "sep", ";"))

base62(kwargs) == Radix_init(symbol_pool, kwargs)

base57(kwargs) ==
    Radix_init(
        Remove(Remove(Remove(Remove(Remove(
            ascii_uppercase \o ascii_lowercase \o string_digits,
            "I"), "l"), "1"), "O"), "0"),
        kwargs)

PresetNames ==
    {"bin", "oct", "hex", "hex_lc", "dozenal", "dozenal_pitman",
     "dozenal_pitman_ascii", "dozenal_dwiggins", "dozenal_kramer",
     "base62", "base57"}

\* getattr(Radix, name)(**kwargs), as the command line selects a preset
Preset(name, kwargs) ==
    CASE name = "bin" -> bin(kwargs)
      [] name = "oct" -> oct(kwargs)
      [] name = "hex" -> hex(kwargs)
      [] name = "hex_lc" -> hex_lc(kwargs)
      [] name = "dozenal" -> dozenal(kwargs)
      [] name = "dozenal_pitman" -> dozenal_pitman(kwargs)
      [] name = "dozenal_pitman_ascii" -> dozenal_pitman_ascii(kwargs)
      [] name = "dozenal_dwiggins" -> dozenal_dwiggins(kwargs)
      [] name = "dozenal_kramer" -> dozenal_kramer(kwargs)
      [] name = "base62" -> base62(kwargs)
      [] name = "base57" -> base57(kwargs)

(***************************************************************************)
(* encode's arguments.                                                     *)
(*   number: [isfloat |-> FALSE, v |-> n]  the int n                       *)
(*           [isfloat |-> TRUE,  v |-> k]  the float k / FracDen           *)
(*   fmt:    [kind |-> "none"]             fmt=None                        *)
(*           [kind |-> "int", n |-> S]     an integer scale                *)
(*           [kind |-> "str", s |-> chars] a format string                 *)
(***************************************************************************)
Int_(n) == [isfloat |-> FALSE, v |-> n]

Float_(k) == [isfloat |-> TRUE, v |-> k]

FmtNone == [kind |-> "none"]

FmtInt(n) == [kind |-> "int", n |-> n]

FmtStr(s) == [kind |-> "str", s |-> s]

\* Python's `not fmt`: None, 0 and "" are all falsy
falsy(f) ==
    \/ f.kind = "none"
    \/ f.kind = "int" /\ f.n = 0
    \/ f.kind = "str" /\ f.s = <<>>

endswith(s, c) == Len(s) > 0 /\ s[Len(s)] = c

\* int(s) for a str of decimal digits
RECURSIVE int_of(_)
int_of(s) ==
    IF s = <<>> THEN 0
    ELSE 10 * int_of(SubSeq(s, 1, Len(s) - 1)) + (Index(string_digits, s[Len(s)]) - 1)

\* the leading run of decimal digits of s
RECURSIVE digit_run(_)
digit_run(s) ==
    IF s = <<>> \/ ~Contains(string_digits, Head(s)) THEN <<>>
    ELSE <<Head(s)>> \o digit_run(Tail(s))

\* Radix._get_scale_from_format: the digits after the first ".", or None when
\* there is no "." (str.index raises) or no digit after it (int("") raises)
get_scale_from_format(s) ==
    LET dot == Index(s, ".")
        run == IF dot = 0 THEN <<>> ELSE digit_run(SubSeq(s, dot + 1, Len(s)))
    IN  IF run = <<>> THEN [isnone |-> TRUE, v |-> 0]
        ELSE [isnone |-> FALSE, v |-> int_of(run)]

(***************************************************************************)
(* encode, lines 219-226: the integer part's digits, most significant      *)
(* first.  IntIndexes is the while loop run to its end; it is used only    *)
(* where the loop ends (base >= 2).                                        *)
(***************************************************************************)
\* line 223: integer, index = divmod(integer, self.base)
divide_step_swapped(n, base) == [integer |-> n % base, index |-> n \div base]

divide_step(n, base) == [integer |-> n \div base, index |-> n % base]

RECURSIVE IntIndexesAppended(_, _)
IntIndexesAppended(n, base) ==
    IF n = 0 THEN <<>>
    ELSE <<n % base>> \o IntIndexesAppended(n \div base, base)

\* lines 222-224: indexes.insert(0, index) until integer is 0
RECURSIVE IntIndexes(_, _)
IntIndexes(n, base) ==
    IF n = 0 THEN <<>>
    ELSE Append(IntIndexes(divide_step(n, base).integer, base),
                divide_step(n, base).index)

(***************************************************************************)
(* encode, lines 258-260: `scale` times, index, fraction =                 *)
(* divmod(fraction*base, 1).  fraction is a numerator over FracDen.        *)
(***************************************************************************)
RECURSIVE FractionLoop(_, _, _, _)
FractionLoop(idx, fraction, base, k) ==
    IF k <= 0 THEN [indexes |-> idx, fraction |-> fraction]
    ELSE FractionLoop(Append(idx, (fraction * base) \div FracDen),
                      (fraction * base) % FracDen, base, k - 1)

\* line 262: fraction > 0.5
RoundsUp(fraction) == 2 * fraction > FracDen

\* lines 263-272: increment from the right; a digit that reaches the base
\* becomes 0 and the carry moves left; the for's else inserts a leading 1
RECURSIVE Carry(_, _)
Carry(idx, base) ==
    IF idx = <<>> THEN <<1>>
    ELSE IF idx[Len(idx)] + 1 = base
         THEN Append(Carry(SubSeq(idx, 1, Len(idx) - 1), base), 0)
         ELSE [idx EXCEPT ![Len(idx)] = @ + 1]

(***************************************************************************)
(* format(template, template_fmt), line 249, for the two formats encode    *)
(* builds itself: "d" on the int 11..1 and ".<scale>f" on the float        *)
(* 11..1.11..1.  The result has one digit character per integer digit,     *)
(* then "." and `scale` digit characters when scale > 0; its first digit   *)
(* is "1".  (Past 17 significant digits Python prints other digit          *)
(* characters in the tail; _fill_template treats every digit character     *)
(* after the first non-zero one alike.)                                    *)
(***************************************************************************)
format_template(nint, isfloat, scale, negative) ==
    (IF negative THEN <<"-">> ELSE <<>>)
    \o Repeat("1", nint)
    \o (IF isfloat /\ scale > 0 THEN <<".">> \o Repeat("1", scale) ELSE <<>>)

(***************************************************************************)
(* Radix._fill_template, lines 300-321.                                    *)
(***************************************************************************)
RECURSIVE fill_loop(_, _, _, _, _)
fill_loop(self, template, digits, is_left_fill, output) ==
    IF template = <<>> THEN output
    ELSE
        LET char == Head(template)
            left == is_left_fill /\ ~Contains(Tail(string_digits), char)
        IN  IF Contains(string_digits, char)
            THEN IF digits # <<>> /\ ~left
                 THEN fill_loop(self, Tail(template), Tail(digits), left,
                                Append(output, Head(digits)))
                 ELSE fill_loop(self, Tail(template), digits, left,
                                Append(output, self.digits[1]))
            ELSE fill_loop(self, Tail(template), digits, left,
                    Append(output,
                        CASE char = "-" -> self.neg
                          [] char = "." -> self.sep
                          [] char = "," -> self.tsep
                          [] char = "+" -> self.pos
                          [] OTHER -> char))

fill_template(self, template, digits) ==
    fill_loop(self, template, digits, TRUE, <<>>)

\* str.rstrip(c) for a one-character c
RECURSIVE rstrip(_, _)
rstrip(s, c) ==
    IF s # <<>> /\ s[Len(s)] = c THEN rstrip(SubSeq(s, 1, Len(s) - 1), c) ELSE s

Raised(exception) == [status |-> exception]

(***************************************************************************)
(* encode, lines 254-286, for fmt None or an int: the fraction's digits,   *)
(* the rounding, the template filled, the trailing zeros stripped.  The    *)
(* result keeps encode's locals next to the returned string:               *)
(*   indexes   the digit values handed to _fill_template (line 274)        *)
(*   nint      len(indexes) before the fraction loop                       *)
(*   scale     the number of fraction digits generated                     *)
(*   fraction  the remainder tested at line 262, over FracDen              *)
(*   rounded   whether line 262's branch ran                               *)
(*   carry_out whether the for's else (line 272) ran                       *)
(***************************************************************************)
encode_digits(self, number, fmt, idx0, scale) ==
    LET has_fraction == number.isfloat
        loop == IF has_fraction
                THEN FractionLoop(idx0, Abs(number.v) % FracDen, self.base, scale)
                ELSE [indexes |-> idx0, fraction |-> 0]
        rounded == has_fraction /\ RoundsUp(loop.fraction)
        final == IF rounded THEN Carry(loop.indexes, self.base) ELSE loop.indexes
        template == format_template(Len(idx0), has_fraction, scale, number.v < 0)
    IN  IF \E i \in 1..Len(final) : final[i] + 1 > Len(self.digits)
        THEN Raised("IndexError")                                  \* line 274
        ELSE
            LET digits == [i \in 1..Len(final) |-> self.digits[final[i] + 1]]
                filled == fill_template(self, template, digits)
                stripped == rstrip(filled, self.digits[1])
                output ==
                    IF has_fraction /\ falsy(fmt)
                    THEN IF endswith(stripped, self.sep)
                         THEN Append(stripped, self.digits[1])
                         ELSE stripped
                    ELSE filled
            IN  [status |-> "ok", output |-> output, indexes |-> final,
                 nint |-> Len(idx0), scale |-> scale, fraction |-> loop.fraction,
                 rounded |-> rounded, carry_out |-> Len(final) > Len(loop.indexes)]

(***************************************************************************)
(* encode, lines 228-252, from the integer digits on.                      *)
(*  - a float with a format string that has no ".<digits>": scale is None  *)
(*    and None * "1" raises TypeError (line 242);                          *)
(*  - an int with a non-zero int fmt: format(template, <int>) raises       *)
(*    TypeError (line 249);                                                *)
(*  - any other format string that does not end in e or E: `exponent` was  *)
(*    assigned on neither branch of lines 206-212, and line 251 raises     *)
(*    UnboundLocalError.  (format() itself accepts every format string     *)
(*    drawn here for the template that reaches it.)                        *)
(***************************************************************************)
encode_rest(self, number, fmt, idx0) ==
    LET has_fraction == number.isfloat
        fromfmt == IF fmt.kind = "str" THEN get_scale_from_format(fmt.s)
                   ELSE [isnone |-> FALSE, v |-> 0]
        scale == IF ~has_fraction THEN 0
                 ELSE IF falsy(fmt) THEN 17 - Len(idx0)
                 ELSE IF fmt.kind = "int" THEN fmt.n
                 ELSE fromfmt.v
    IN  IF has_fraction /\ ~falsy(fmt) /\ fmt.kind = "str" /\ fromfmt.isnone
        THEN Raised("TypeError")
        ELSE IF ~has_fraction /\ ~falsy(fmt) /\ fmt.kind = "int"
        THEN Raised("TypeError")
        ELSE IF fmt.kind = "str"
        THEN Raised("UnboundLocalError")
        ELSE encode_digits(self, number, fmt, idx0, scale)

(***************************************************************************)
(* Radix.encode, lines 197-286.  Formats ending in e or E (scientific      *)
(* notation, through math.log) are not drawn by any specification below;   *)
(* the branch is kept as a result of its own.  With base 0 the first       *)
(* divmod raises; with base 1 divmod(integer, 1) returns integer and the   *)
(* while loop of line 222 never ends, so the call returns nothing.         *)
(***************************************************************************)
encode(self, number, fmt) ==
    LET integer0 == Abs(number.v) \div (IF number.isfloat THEN FracDen ELSE 1)
    IN  IF fmt.kind = "str" /\ (endswith(fmt.s, "e") \/ endswith(fmt.s, "E"))
        THEN [status |-> "scientific"]
        ELSE IF integer0 # 0 /\ self.base = 0
        THEN Raised("ZeroDivisionError")                           \* line 223
        ELSE IF integer0 # 0 /\ self.base = 1
        THEN [status |-> "diverges"]                               \* line 222
        ELSE encode_rest(self, number, fmt,
                IF integer0 # 0 THEN IntIndexes(integer0, self.base) ELSE <<0>>)

(***************************************************************************)
(* Radix.decode, lines 323-351.                                            *)
(***************************************************************************)
RECURSIVE lstrip_ws(_)
lstrip_ws(s) == IF s # <<>> /\ Head(s) = " " THEN lstrip_ws(Tail(s)) ELSE s

strip(s) == rstrip(lstrip_ws(s), " ")

startswith(s, c) == Len(s) > 0 /\ s[1] = c

\* the sum of lines 341-347 as an exact fraction: with k digits after the
\* separator the terms are index * base ** (len - j) over base ** k
RECURSIVE decode_sum(_, _, _)
decode_sum(self, s, total) ==
    IF s = <<>> THEN total
    ELSE decode_sum(self, Tail(s), total * self.base + (Index(self.digits, Head(s)) - 1))

decode(self, str) ==
    LET s0 == strip(str)
        is_negative == startswith(s0, self.neg)
        s1 == IF is_negative \/ startswith(s0, self.pos) THEN Tail(s0) ELSE s0
        p == Index(s1, self.sep)
        s2 == IF p = 0 THEN s1
              ELSE SubSeq(s1, 1, p - 1) \o SubSeq(s1, p + 1, Len(s1))
        k == IF p = 0 THEN 0 ELSE Len(s2) - (p - 1)
    IN  IF \E i \in 1..Len(s2) : ~Contains(self.digits, s2[i])
        THEN Raised("ValueError")                                  \* line 346
        ELSE [status |-> "ok",
              num |-> (IF is_negative THEN -1 ELSE 1) * decode_sum(self, s2, 0),
              den |-> Pow(self.base, k)]

\* the Python number a decoded value is: an int when no exponent went
\* negative, else the float num / den
as_number(d) ==
    IF d.den = 1 THEN Int_(d.num) ELSE Float_((d.num * FracDen) \div d.den)

(***************************************************************************)
(* Radix.wrap and RadixFormatWrapper, lines 353-391.  An object to wrap is *)
(*   [kind |-> "num", number |-> n], [kind |-> "str", s |-> chars] or      *)
(*   [kind |-> "seq", items |-> <<objects>>];                              *)
(* a wrapper keeps the number and refers to the radix it was made by.      *)
(***************************************************************************)
RadixFormatWrapper_init(obj, self) ==
    IF obj.kind = "str"
    THEN LET d == decode(self, obj.s)
         IN  IF d.status = "ok"
             THEN [status |-> "ok", kind |-> "one", number |-> as_number(d)]
             ELSE d
    ELSE [status |-> "ok", kind |-> "one", number |-> obj.number]

wrap(self, obj) ==
    IF obj.kind \in {"num", "str"}
    THEN RadixFormatWrapper_init(obj, self)
    ELSE LET each == [i \in 1..Len(obj.items) |->
                         RadixFormatWrapper_init(obj.items[i], self)]
         IN  IF \E i \in 1..Len(each) : each[i].status # "ok"
             THEN Raised("ValueError")
             ELSE [status |-> "ok", kind |-> "seq", items |-> each]

(***************************************************************************)
(* Inputs.                                                                 *)
(***************************************************************************)
NoKwargs == {}

Ints == {Int_(n) : n \in -MaxN..MaxN} \cup {Int_(1000), Int_(1000000)}

\* 1.875, 9.96875, -9.96875 and 99.96875 when FracDen is 32: floats whose
\* rounding at a small scale carries through every digit
ScenarioFloats ==
    {2 * FracDen - FracDen \div 8, 10 * FracDen - 1, -(10 * FracDen - 1),
     100 * FracDen - 1}

Floats == {Float_(k) : k \in (-MaxK..MaxK) \cup ScenarioFloats}

FmtStrings ==
    {<<>>, <<"d">>, <<"+", "d">>, <<",", "d">>, <<"+", ".", "1", "f">>}

Fmts ==
    {FmtNone} \cup {FmtInt(n) : n \in 0..MaxScale} \cup {FmtStr(f) : f \in FmtStrings}

Idle == [status |-> "idle"]

(***************************************************************************)
(* EncSpec: encode and decode as functions.  Init draws the alphabet (each *)
(* preset with its default symbols, and by_base(10)), the number and the   *)
(* format; EncCall applies encode; EncDecode applies decode to the string  *)
(* encode returned.                                                        *)
(***************************************************************************)
EncRadixes == {Preset(name, NoKwargs) : name \in PresetNames} \cup {by_base(10, NoKwargs)}

\* the number of symbols after the first separator of s
FractionLen(self, s) == IF Index(s, self.sep) = 0 THEN 0 ELSE Len(s) - Index(s, self.sep)

EncInit ==
    /\ radix \in EncRadixes
    /\ call_number \in Ints \cup Floats
    /\ call_fmt \in Fmts
    /\ pc = "ready"
    /\ enc = Idle
    /\ dec = Idle
    /\ wrapper = NoObject
    /\ last = [op |-> "none"]
    /\ integer = 0
    /\ indexes = <<>>

EncCall ==
    /\ pc = "ready"
    /\ enc' = encode(radix, call_number, call_fmt)
    /\ pc' = "encoded"
    /\ UNCHANGED <<radix, wrapper, last, call_number, call_fmt, dec, integer, indexes>>

\* decode is applied to strings of at most MaxScale fraction digits, which
\* keeps base ** k within the integers of the model checker
EncDecode ==
    /\ pc = "encoded"
    /\ enc.status = "ok"
    /\ FractionLen(radix, enc.output) <= MaxScale
    /\ dec' = decode(radix, enc.output)
    /\ pc' = "decoded"
    /\ UNCHANGED <<radix, wrapper, last, call_number, call_fmt, enc, integer, indexes>>

EncNext == EncCall \/ EncDecode

EncSpec == EncInit /\ [][EncNext]_vars

(***************************************************************************)
(* TermSpec: encode(n) for an int n and no format, followed statement by   *)
(* statement through lines 214-226, then to its return.                    *)
(*   "ready"  before the call          "if"     at line 221                *)
(*   "while"  at line 222, after an iteration                              *)
(*   "render" at line 228              "returned" / "raised"               *)
(* Alphabets: by_base(0), by_base(1), ..., by_base(4) and every preset.    *)
(* TermDivide is followed while indexes holds fewer than MaxDigits digits; *)
(* no int drawn has that many digits in a base of 2 or more.               *)
(***************************************************************************)
TermRadixes ==
    {by_base(b, NoKwargs) : b \in 0..4} \cup {Preset(name, NoKwargs) : name \in PresetNames}

TermInit ==
    /\ radix \in TermRadixes
    /\ call_number \in {Int_(n) : n \in -MaxN..MaxN}
    /\ call_fmt = FmtNone
    /\ pc = "ready"
    /\ enc = Idle
    /\ dec = Idle
    /\ wrapper = NoObject
    /\ last = [op |-> "none"]
    /\ integer = 0
    /\ indexes = <<>>

\* lines 214-219
TermEnter ==
    /\ pc = "ready"
    /\ integer' = Abs(call_number.v)
    /\ indexes' = <<>>
    /\ pc' = "if"
    /\ UNCHANGED <<radix, wrapper, last, call_number, call_fmt, enc, dec>>

\* lines 225-226
TermZero ==
    /\ pc = "if"
    /\ integer = 0
    /\ indexes' = <<0>>
    /\ pc' = "render"
    /\ UNCHANGED <<radix, wrapper, last, call_number, call_fmt, enc, dec, integer>>

\* lines 222-224, one iteration
TermDivide ==
    /\ pc \in {"if", "while"}
    /\ integer # 0
    /\ radix.base # 0
    /\ Len(indexes) < MaxDigits
    /\ integer' = divide_step(integer, radix.base).integer
    /\ indexes' = <<divide_step(integer, radix.base).index>> \o indexes
    /\ pc' = "while"
    /\ UNCHANGED <<radix, wrapper, last, call_number, call_fmt, enc, dec>>

\* line 223 with base 0: divmod raises ZeroDivisionError
TermDivideByZero ==
    /\ pc = "if"
    /\ integer # 0
    /\ radix.base = 0
    /\ enc' = Raised("ZeroDivisionError")
    /\ pc' = "raised"
    /\ UNCHANGED <<radix, wrapper, last, call_number, call_fmt, dec, integer, indexes>>

\* line 222: the while condition is false
TermExit ==
    /\ pc = "while"
    /\ integer = 0
    /\ pc' = "render"
    /\ UNCHANGED <<radix, wrapper, last, call_number, call_fmt, enc, dec, integer, indexes>>

\* lines 228-286
TermRender ==
    /\ pc = "render"
    /\ enc' = encode_rest(radix, call_number, call_fmt, indexes)
    /\ pc' = IF enc'.status = "ok" THEN "returned" ELSE "raised"
    /\ UNCHANGED <<radix, wrapper, last, call_number, call_fmt, dec, integer, indexes>>

TermNext ==
    TermEnter \/ TermZero \/ TermDivide \/ TermDivideByZero \/ TermExit \/ TermRender

TermSpec == TermInit /\ [][TermNext]_vars

\* the interpreter keeps executing the call: a statement that can run does
TermLive == TermSpec /\ WF_vars(TermNext)

(***************************************************************************)
(* Spec: one Radix object through its life.  It is constructed (by the     *)
(* constructor, by_base or a preset), then its digits are reassigned and   *)
(* encode, decode, wrap and the wrappers' __format__ and __str__ are       *)
(* called in any order.  `last` is the last call, its arguments and what   *)
(* it returned or raised.  An encode that never returns leaves the caller  *)
(* at "hung".                                                              *)
(***************************************************************************)
DigitChoices == {<<>>, <<"0">>, <<"0", "1">>, <<"0", "0">>, <<"a", "b", "c">>}

KwargChoices == {NoKwargs, {<<"sep", "0">>}, {<<"sep", ":">>, <<"neg", "~">>}}

\* the bases by_base is called with: negative, zero, small, and around the
\* size of the symbol pool
ByBaseArgs == (-2..4) \cup {10, 16} \cup ((MaxByBase - 4)..MaxByBase)

ObjNumbers ==
    {Int_(0), Int_(5), Int_(-6), Float_(FracDen \div 2), Float_(-(FracDen + FracDen \div 4))}

ObjFmts == {FmtNone, FmtInt(1), FmtStr(<<"+", "d">>)}

DecodeStrings ==
    {<<"1", "0">>, <<"-", "1", "1">>, <<"1", ".", "1">>, <<"1", "G">>, <<" ", "b", "a">>}

WrapObjects ==
    {[kind |-> "num", number |-> Int_(5)],
     [kind |-> "str", s |-> <<"1", "0">>],
     [kind |-> "str", s |-> <<"1", "G">>],
     [kind |-> "seq", items |-> <<[kind |-> "num", number |-> Int_(1)],
                                  [kind |-> "num", number |-> Int_(-6)]>>]}

Init ==
    /\ radix = NoObject
    /\ wrapper = NoObject
    /\ last = [op |-> "none"]
    /\ pc = "new"
    /\ call_number = Int_(0)
    /\ call_fmt = FmtNone
    /\ enc = Idle
    /\ dec = Idle
    /\ integer = 0
    /\ indexes = <<>>

Untouched == UNCHANGED <<call_number, call_fmt, enc, dec, integer, indexes>>

\* Radix(digits, **kwargs)
New(digits, kwargs) ==
    /\ pc = "new"
    /\ radix' = Radix_init(digits, kwargs)
    /\ last' = [op |-> "Radix", digits |-> digits]
    /\ pc' = "live"
    /\ UNCHANGED wrapper
    /\ Untouched

\* Radix.by_base(base, **kwargs)
ByBase(base, kwargs) ==
    /\ pc = "new"
    /\ radix' = by_base(base, kwargs)
    /\ last' = [op |-> "by_base", base |-> base]
    /\ pc' = "live"
    /\ UNCHANGED wrapper
    /\ Untouched

\* Radix.bin(**kwargs), ..., Radix.base57(**kwargs)
NewPreset(name, kwargs) ==
    /\ pc = "new"
    /\ radix' = Preset(name, kwargs)
    /\ last' = [op |-> "preset", name |-> name]
    /\ pc' = "live"
    /\ UNCHANGED wrapper
    /\ Untouched

\* radix.digits = digits
SetDigits(digits) ==
    /\ pc = "live"
    /\ radix' = digits_setter(radix, digits)
    /\ last' = [op |-> "set_digits", digits |-> digits]
    /\ UNCHANGED <<wrapper, pc>>
    /\ Untouched

\* what a call of encode leaves behind
Encoded(op, n, f) ==
    LET r == encode(radix, n, f)
    IN  /\ last' = [op |-> op, number |-> n, fmt |-> f, result |-> r]
        /\ pc' = IF r.status = "diverges" THEN "hung" ELSE "live"
        /\ UNCHANGED <<radix, wrapper>>
        /\ Untouched

\* radix.encode(number, fmt)
Encode(n, f) == pc = "live" /\ Encoded("encode", n, f)

\* radix.decode(str)
Decode(str) ==
    /\ pc = "live"
    /\ last' = [op |-> "decode", str |-> str, result |-> decode(radix, str)]
    /\ UNCHANGED <<radix, wrapper, pc>>
    /\ Untouched

\* radix.wrap(obj): a wrapper exists when the constructor did not raise
Wrap(obj) ==
    /\ pc = "live"
    /\ LET w == wrap(radix, obj)
       IN  /\ last' = [op |-> "wrap", obj |-> obj, result |-> w]
           /\ wrapper' = IF w.status = "ok" THEN w ELSE wrapper
    /\ UNCHANGED <<radix, pc>>
    /\ Untouched

\* the numbers the wrappers made by the last successful wrap hold
Wrapped ==
    IF wrapper = NoObject THEN {}
    ELSE IF wrapper.kind = "one" THEN {wrapper.number}
    ELSE {wrapper.items[i].number : i \in 1..Len(wrapper.items)}

\* RadixFormatWrapper.__format__(fmt): fmt is the str of the replacement field
WrapperFormat(n, f) ==
    /\ pc = "live"
    /\ n \in Wrapped
    /\ Encoded("__format__", n, FmtStr(f))

\* RadixFormatWrapper.__str__()
WrapperStr(n) ==
    /\ pc = "live"
    /\ n \in Wrapped
    /\ Encoded("__str__", n, FmtNone)

Next ==
    \/ \E d \in DigitChoices, k \in KwargChoices : New(d, k)
    \/ \E b \in ByBaseArgs, k \in KwargChoices : ByBase(b, k)
    \/ \E name \in PresetNames, k \in KwargChoices : NewPreset(name, k)
    \/ \E d \in DigitChoices : SetDigits(d)
    \/ \E n \in ObjNumbers, f \in ObjFmts : Encode(n, f)
    \/ \E str \in DecodeStrings : Decode(str)
    \/ \E obj \in WrapObjects : Wrap(obj)
    \/ \E n \in ObjNumbers \cup {Int_(1)}, f \in FmtStrings : WrapperFormat(n, f)
    \/ \E n \in ObjNumbers \cup {Int_(1)} : WrapperStr(n)

Spec == Init /\ [][Next]_vars

(***************************************************************************)
(* Properties.                                                             *)
(***************************************************************************)
Called == pc \in {"encoded", "decoded"}

\* the symbols of a list of digit values
Symbols(self, idx) == [i \in 1..Len(idx) |-> self.digits[idx[i] + 1]]

\* C1 (EncSpec): for every preset alphabet (and by_base(10)) and every int n
\* drawn, 0 and negative n included, encode(n) with no format returns a
\* string, and decode of that string returns exactly the int n.
C1_RoundTrip ==
    (~call_number.isfloat /\ call_fmt.kind = "none") =>
        /\ Called => (enc.status = "ok" /\ FractionLen(radix, enc.output) = 0)
        /\ pc = "decoded" =>
               dec = [status |-> "ok", num |-> call_number.v, den |-> 1]

\* C1's case: a negative two-digit number in base 57, decoded back
C1_Witness ==
    /\ pc = "decoded"
    /\ radix.base = 57
    /\ call_number = Int_(-60)
    /\ call_fmt.kind = "none"
    /\ Len(enc.output) = 3
    /\ dec.num = -60

\* C2 (EncSpec), as claimed: for a float x and an int scale S >= 0 given as
\* the format, decode(encode(x, S)) is a number within base^-S / 2 of x.
\* With x = v / FracDen and the decoded value num / den this is
\* 2 * base^S * |num * FracDen - v * den| <= FracDen * den.
C2_FixedScaleError ==
    (pc = "decoded" /\ call_number.isfloat /\ call_fmt.kind = "int") =>
        /\ dec.status = "ok"
        /\ 2 * Pow(radix.base, call_fmt.n)
               * Abs(dec.num * FracDen - call_number.v * dec.den)
           <= FracDen * dec.den

\* the digits the claims expect of encode(x, S) when it rounds up: S fraction
\* digits, the carry applied, every digit kept, the separator after the
\* integer digits when S > 0
CarriedDigits(self, x, S) ==
    Carry(FractionLoop(
              IF Abs(x.v) \div FracDen = 0 THEN <<0>>
              ELSE IntIndexes(Abs(x.v) \div FracDen, self.base),
              Abs(x.v) % FracDen, self.base, S).indexes,
          self.base)

CarriedString(self, x, S) ==
    LET syms == Symbols(self, CarriedDigits(self, x, S))
    IN  (IF x.v < 0 THEN <<self.neg>> ELSE <<>>)
        \o SubSeq(syms, 1, Len(syms) - S)
        \o (IF S > 0 THEN <<self.sep>> \o SubSeq(syms, Len(syms) - S + 1, Len(syms))
            ELSE <<>>)

\* the remainder left after S fraction digits of x, over FracDen
RemainderAt(self, x, S) ==
    FractionLoop(<<>>, Abs(x.v) % FracDen, self.base, S).fraction

\* C3 (EncSpec), as claimed: when encode at a fixed scale S >= 0 rounds up,
\* the string returned shows the carried digits, all of them, with a new
\* leading digit 1 when the carry leaves the most significant digit
\* (9.99 at scale 1 gives "10.0", 0.9999 at scale 0 gives "1").
C3_CarryShown ==
    (Called /\ call_number.isfloat /\ call_fmt.kind = "int"
        /\ RoundsUp(RemainderAt(radix, call_number, call_fmt.n))) =>
        /\ enc.status = "ok"
        /\ enc.output = CarriedString(radix, call_number, call_fmt.n)

\* C4 (EncSpec), as claimed: encode(n) of a negative n returns a string that
\* begins with the negative sign, and encode(n, fmt) of a non-negative n
\* with a format that asks for the sign ("+d", "+.1f") returns a string that
\* begins with the positive sign.
C4_SignShown ==
    /\ (Called /\ call_number.v < 0 /\ call_fmt.kind = "none") =>
           (enc.status = "ok" /\ Head(enc.output) = radix.neg)
    /\ (Called /\ call_number.v >= 0 /\ call_fmt.kind = "str"
           /\ startswith(call_fmt.s, "+")) =>
           (enc.status = "ok" /\ Head(enc.output) = radix.pos)

\* digits with the group separator between every 3 of them from the right
RECURSIVE GroupBy3(_, _)
GroupBy3(syms, tsep) ==
    IF Len(syms) <= 3 THEN syms
    ELSE GroupBy3(SubSeq(syms, 1, Len(syms) - 3), tsep)
         \o <<tsep>> \o SubSeq(syms, Len(syms) - 2, Len(syms))

\* C5 (EncSpec), as claimed: encode(n, ",d") of a non-negative int n returns
\* the digits of n with the group separator between every 3 integer digits
\* counted from the right (1000000 in base 10 gives "1,000,000").
C5_Grouped ==
    (Called /\ ~call_number.isfloat /\ call_number.v >= 0
        /\ call_fmt = FmtStr(<<",", "d">>)) =>
        /\ enc.status = "ok"
        /\ enc.output =
               GroupBy3(Symbols(radix,
                            IF call_number.v = 0 THEN <<0>>
                            ELSE IntIndexes(call_number.v, radix.base)),
                        radix.tsep)

\* C9 (EncSpec), as claimed: at a fixed scale S >= 1, after the S fraction
\* digits the last retained digit is incremented exactly when the next digit
\* would be >= base / 2, so a remainder of exactly half a unit rounds up.
C9_RoundHalfUp ==
    (Called /\ call_number.isfloat /\ call_fmt.kind = "int" /\ call_fmt.n >= 1
        /\ enc.status = "ok") =>
        (enc.rounded <=> 2 * ((enc.fraction * radix.base) \div FracDen) >= radix.base)

WellFormed(self) ==
    LET syms == self.digits \o <<self.sep, self.neg, self.pos, self.tsep, self.exp>>
    IN  /\ Len(self.digits) > 0
        /\ \A i, j \in 1..Len(syms) : i # j => syms[i] # syms[j]

\* C6 (Spec), as claimed: an alphabet that has been constructed, by the
\* constructor, by_base or a preset, has at least one digit and pairwise
\* distinct symbols (construction having failed otherwise).
C6_ConstructedWellFormed ==
    (pc = "live" /\ last.op \in {"Radix", "by_base", "preset"}) => WellFormed(radix)

\* C7 (Spec), as claimed: by_base(n) returns an alphabet only when n is not 0
\* and not above 62, and the alphabet it returns has base n.
C7_ByBaseRange ==
    (pc = "live" /\ last.op = "by_base") =>
        /\ last.base # 0
        /\ last.base <= Len(symbol_pool)
        /\ radix.base = last.base

\* C8 (Spec): whenever a Radix object exists - after its construction, after
\* any reassignment of digits and after any calls of encode, decode, wrap
\* and the wrappers - base equals the number of symbols in digits.
C8_BaseIsLen == radix # NoObject => radix.base = Len(radix.digits)

\* C8's case: digits reassigned to three symbols on an object that had been
\* wrapped, and base followed
C8_Witness ==
    /\ last.op = "set_digits"
    /\ wrapper # NoObject
    /\ radix.digits = <<"a", "b", "c">>
    /\ radix.base = 3

\* C10 (TermLive), as amended: for every alphabet with base >= 2 and every
\* int n drawn, encode(n) terminates: from line 221 the call reaches its
\* return, with a string.
C10_Terminates ==
    (pc = "if" /\ radix.base >= 2) ~> (pc = "returned" /\ enc.status = "ok")

\* C10's case: a call in a base >= 2 that returned after at least three
\* iterations of the division loop
C10_Witness ==
    /\ pc = "returned"
    /\ radix.base >= 2
    /\ Len(indexes) >= 3
    /\ integer = 0

\* C10 (TermLive), as claimed for every base >= 1: the loop reaches zero
\* after finitely many iterations.  The loop's only state is `integer` and
\* the base does not change, so this needs every iteration to leave
\* `integer` strictly nearer zero.
C10_EveryIterationNearerZero ==
    [][(pc' = "while" /\ radix.base >= 1) => integer' < integer]_vars

====
